---- MODULE Spec2Model ----
(***************************************************************************)
(* RustyStore: a typed in-memory value persisted as RON text in one file   *)
(* per (category, identifier).  The model covers Storage (read / write /   *)
(* open_file / store_default / dir_path), StoreHandle and StoreManager.    *)
(*                                                                         *)
(* The value type is the examples' `struct MyStore { count: u32 }`; a      *)
(* value is modelled by its count.  A file's content is a sequence of RON  *)
(* tokens, one per character class of the real text:                       *)
(*     "(\n    count: 10,\n)"   is   << "(", "count:", "1", "0", ",", ")" >>*)
(* so that lengths, prefixes and left-over tails behave as the bytes do.   *)
(***************************************************************************)
EXTENDS Integers, Sequences, FiniteSets, TLC

\* ------------------------------------------------------------------ bounds
\* largest count reached by `count += 1`
MaxCount == 3
\* a count whose decimal text is one digit longer than those of 0..MaxCount
BigCount == 10
\* how often another process may remove the file right after a default write
MaxRemovals == 1
\* largest count a bare handle reaches in SpecHandle
HandleMaxCount == 1

\* the empty slot of a Manager or handle that is not in scope
None == [in_scope |-> FALSE]

\* ------------------------------------------------------------------- codec
Digit == <<"0", "1", "2", "3", "4", "5", "6", "7", "8", "9">>
DigitChars == {Digit[i] : i \in 1..10}

RECURSIVE Decimal(_)
\* the decimal text of an unsigned integer, as ron prints a u32
Decimal(n) ==
    IF n < 10 THEN <<Digit[n + 1]>>
    ELSE Decimal(n \div 10) \o <<Digit[(n % 10) + 1]>>

DigitValue(c) == (CHOOSE i \in 1..10 : Digit[i] = c) - 1

RECURSIVE ParseDecimal(_, _)
\* value of a digit string, most significant digit first; acc is the prefix
ParseDecimal(ds, acc) ==
    IF ds = <<>> THEN acc
    ELSE ParseDecimal(Tail(ds), acc * 10 + DigitValue(Head(ds)))

\* ron::ser::to_string_pretty(&store, PrettyConfig): "(", the field name,
\* the number, a trailing comma and ")".  compact_arrays only changes how
\* arrays are laid out, and MyStore has none, so write and store_default
\* produce the same text for the same value.
Encode(v) == <<"(", "count:">> \o Decimal(v) \o <<",", ")">>

RECURSIVE DigitRun(_)
\* the longest prefix of t made of digits
DigitRun(t) ==
    IF t # <<>> /\ Head(t) \in DigitChars
    THEN <<Head(t)>> \o DigitRun(Tail(t))
    ELSE <<>>

\* ron::from_str::<MyStore>: a struct body with the one field, an optional
\* trailing comma, and nothing but the end of input after ")" (from_str
\* ends with Deserializer::end, which rejects trailing characters).
Decode(t) ==
    IF Len(t) >= 2 /\ t[1] = "(" /\ t[2] = "count:"
    THEN LET rest == SubSeq(t, 3, Len(t))
             ds   == DigitRun(rest)
             tl   == SubSeq(rest, Len(ds) + 1, Len(rest))
         IN  IF ds # <<>> /\ (tl = <<",", ")">> \/ tl = <<")">>)
             THEN [ok |-> TRUE, value |-> ParseDecimal(ds, 0)]
             ELSE [ok |-> FALSE, value |-> 0]
    ELSE [ok |-> FALSE, value |-> 0]

\* text that is not RON for MyStore, as left by another program
Garbage == <<"x">>

\* ------------------------------------------------------------------- types
\* StoringType
Categories == {"Cache", "Data", "Config"}

\* three value types implementing Storing, one per category
Types == {"CacheStore", "DataStore", "ConfigStore"}

\* Storing::store_type
store_type(T) ==
    CASE T = "CacheStore"  -> "Cache"
      [] T = "DataStore"   -> "Data"
      [] T = "ConfigStore" -> "Config"

\* T::default(): #[derive(Default)] on { count: u32 }
DefaultStore(T) == 0

\* ------------------------------------------------------------------- paths
\* a path is the sequence of its components; "/" is <<>>
AppId == "app"

Platforms == {"linux", "macos"}

\* dirs::cache_dir / data_dir / config_dir: on macOS the data and the
\* config directory are the same directory
cache_base(p) ==
    IF p = "linux" THEN <<"home", ".cache">> ELSE <<"home", "Library", "Caches">>
data_base(p) ==
    IF p = "linux" THEN <<"home", ".local", "share">>
    ELSE <<"home", "Library", "Application Support">>
config_base(p) ==
    IF p = "linux" THEN <<"home", ".config">>
    ELSE <<"home", "Library", "Application Support">>

\* Storage::new(app_id) on platform p
StorageNew(p, app_id) ==
    [cache_dir  |-> cache_base(p) \o <<app_id>>,
     data_dir   |-> data_base(p) \o <<app_id>>,
     config_dir |-> config_base(p) \o <<app_id>>]

\* Storage::from(cache_dir, data_dir, config_dir)
StorageFrom(cache_dir, data_dir, config_dir) ==
    [cache_dir |-> cache_dir, data_dir |-> data_dir, config_dir |-> config_dir]

\* directories a caller may hand to Storage::from
FromDirs == {<<"tmp", "a">>, <<"tmp", "b">>}

\* identifiers: a plain file name, and an absolute path
RelId == [abs |-> FALSE, comps |-> <<"counter">>]
AbsId == [abs |-> TRUE, comps |-> <<"abs">>]
Identifiers == {RelId, AbsId}

\* PathBuf::push: an absolute argument replaces the whole path
Push(base, id) == IF id.abs THEN id.comps ELSE base \o id.comps

\* Storage::dir_path::<T>
dir_path(st, T) ==
    CASE store_type(T) = "Cache"  -> st.cache_dir
      [] store_type(T) = "Data"   -> st.data_dir
      [] store_type(T) = "Config" -> st.config_dir

\* the target file of a handle: dir_path joined with the store id
FilePath(st, h) == Push(dir_path(st, h.T), h.store_id)

\* Path::parent
Parent(path) == SubSeq(path, 1, Len(path) - 1)

\* the directories fs::create_dir_all(d) makes sure exist
AllDirs(d) == {SubSeq(d, 1, i) : i \in 1..Len(d)}


\* ----------------------------------------------------------------- storage
\* StoreError variants, and "Ok"
Errors == {"RonParse", "Ron", "FileOpen", "Read", "CreateDir", "Write"}

\* what the environment makes fail during one call, if the call gets there:
\* the first open (not with NotFound), the open after a default write,
\* read_to_string, encoding the value, file.write, create_dir_all,
\* encoding the default, fs::write of the default
Faults == {"none", "open", "reopen", "read", "encode", "write",
           "mkdir", "defencode", "defwrite"}

\* StoreHandle::new
StoreHandleNew(T, store_id) ==
    [store_id |-> store_id, store |-> DefaultStore(T), T |-> T]

\* StoreHandle::set_store
set_store(h, store) == [h EXCEPT !.store = store]

\* a file system: the existing regular files with their text, and the
\* existing directories
FileExists(fs, path) == path \in DOMAIN fs.files

RemoveFile(fs, path) ==
    [fs EXCEPT !.files = [q \in (DOMAIN fs.files) \ {path} |-> fs.files[q]]]

PutFile(fs, path, text) ==
    [fs EXCEPT !.files = [q \in (DOMAIN fs.files) \cup {path} |->
                             IF q = path THEN text ELSE fs.files[q]]]

\* file.write(bytes) on a file opened without truncate, at offset 0: the
\* new bytes replace the first Len(new) bytes, any further old bytes stay
OverwriteFromStart(old, new) ==
    new \o SubSeq(old, Len(new) + 1, Len(old))

\* mutant of OpenOptionsOpen: the first open reports NotFound also for an
\* existing file, so the default is stored before every call's retry
OpenOptionsOpenDefaultFirst(fsys, path, fault, attempt) ==
    IF (fault = "open" /\ attempt = 1) \/ (fault = "reopen" /\ attempt = 2)
    THEN "Other"
    ELSE IF FileExists(fsys, path) /\ attempt > 1 THEN "Ok" ELSE "NotFound"

\* mutant of OpenOptionsOpen: every error of the first open is taken for
\* NotFound (the match arm lacks its `e.kind() == NotFound` guard)
OpenOptionsOpenAnyErrorNotFound(fsys, path, fault, attempt) ==
    IF fault = "open" /\ attempt = 1
    THEN "NotFound"
    ELSE IF fault = "reopen" /\ attempt = 2
    THEN "Other"
    ELSE IF FileExists(fsys, path) THEN "Ok" ELSE "NotFound"

\* OpenOptions::new().read(true).write(true).create(false).truncate(false)
\* .open(path), as open_file matches on it: "Ok" (the file is open, nothing
\* on disk changed), "NotFound", or "Other" for any other io::Error.  The
\* first open can fail with fault "open", the second with "reopen".
OpenOptionsOpen(fsys, path, fault, attempt) ==
    IF (fault = "open" /\ attempt = 1) \/ (fault = "reopen" /\ attempt = 2)
    THEN "Other"
    ELSE IF FileExists(fsys, path) THEN "Ok" ELSE "NotFound"

\* Storage::read_string
read_string(fs, path) == fs.files[path]

\* mutant of ReadOperation: a file that does not decode is replaced by the
\* default's text before the error is returned
ReadOperationRepairing(fs, path, h, fault) ==
    IF fault = "read"
    THEN [res |-> "Read", fs |-> fs, handle |-> h]
    ELSE LET store_data == Decode(read_string(fs, path))
         IN  IF ~store_data.ok
             THEN [res |-> "RonParse",
                   fs |-> PutFile(fs, path, Encode(DefaultStore(h.T))),
                   handle |-> h]
             ELSE [res |-> "Ok", fs |-> fs,
                   handle |-> set_store(h, store_data.value)]

\* mutant of ReadOperation: the handle is set from the decoder's output
\* before the decode result is checked
ReadOperationEager(fs, path, h, fault) ==
    IF fault = "read"
    THEN [res |-> "Read", fs |-> fs, handle |-> h]
    ELSE LET store_data == Decode(read_string(fs, path))
         IN  [res |-> IF store_data.ok THEN "Ok" ELSE "RonParse", fs |-> fs,
              handle |-> set_store(h, store_data.value)]

\* the closure Storage::read hands to open_file
ReadOperation(fs, path, h, fault) ==
    IF fault = "read"
    THEN [res |-> "Read", fs |-> fs, handle |-> h]
    ELSE LET store_data == Decode(read_string(fs, path))
         IN  IF ~store_data.ok
             THEN [res |-> "RonParse", fs |-> fs, handle |-> h]
             ELSE [res |-> "Ok", fs |-> fs,
                   handle |-> set_store(h, store_data.value)]

\* mutant of WriteOperation: the file is written at its end (opened with
\* append) instead of from its start
WriteOperationAppending(fs, path, h, fault) ==
    IF fault = "encode"
    THEN [res |-> "Ron", fs |-> fs, handle |-> h]
    ELSE IF fault = "write"
    THEN [res |-> "Write", fs |-> fs, handle |-> h]
    ELSE [res |-> "Ok",
          fs |-> PutFile(fs, path, fs.files[path] \o Encode(h.store)),
          handle |-> h]

\* mutant of WriteOperation: the store is moved out of the handle to be
\* encoded (std::mem::take), which leaves the default behind
WriteOperationTaking(fs, path, h, fault) ==
    IF fault = "encode"
    THEN [res |-> "Ron", fs |-> fs, handle |-> set_store(h, DefaultStore(h.T))]
    ELSE IF fault = "write"
    THEN [res |-> "Write", fs |-> fs,
          handle |-> set_store(h, DefaultStore(h.T))]
    ELSE [res |-> "Ok",
          fs |-> PutFile(fs, path,
                         OverwriteFromStart(fs.files[path], Encode(h.store))),
          handle |-> set_store(h, DefaultStore(h.T))]

\* the closure Storage::write hands to open_file
WriteOperation(fs, path, h, fault) ==
    IF fault = "encode"
    THEN [res |-> "Ron", fs |-> fs, handle |-> h]
    ELSE IF fault = "write"
    THEN [res |-> "Write", fs |-> fs, handle |-> h]
    ELSE [res |-> "Ok",
          fs |-> PutFile(fs, path,
                         OverwriteFromStart(fs.files[path], Encode(h.store))),
          handle |-> h]

\* Storage::store_default
store_default(fs, T, path, fault) ==
    IF fault = "mkdir"
    THEN [res |-> "CreateDir", fs |-> fs]
    ELSE LET made == [fs EXCEPT !.dirs = @ \cup AllDirs(Parent(path))]
         IN  IF fault = "defencode" THEN [res |-> "Ron", fs |-> made]
             ELSE IF fault = "defwrite" THEN [res |-> "Write", fs |-> made]
             ELSE [res |-> "Ok",
                   fs |-> PutFile(made, path, Encode(DefaultStore(T)))]

RECURSIVE open_file_resetting(_, _, _, _, _, _, _)
\* mutant of open_file: when store_default fails, the handle is reset to the
\* type default before the error is returned
open_file_resetting(st, fsys, h, operation, fault, removals, tr) ==
    LET path    == FilePath(st, h)
        attempt == tr.opens + 1
        tr1     == [tr EXCEPT !.opens = attempt,
                              !.denied = @ \/ (attempt = 1 /\ fault = "open")]
        opened  == OpenOptionsOpen(fsys, path, fault, attempt)
    IN  IF opened = "Ok"
        THEN LET r == IF operation = "read"
                      THEN ReadOperation(fsys, path, h, fault)
                      ELSE WriteOperation(fsys, path, h, fault)
             IN  [res |-> r.res, stage |-> "operation", fs |-> r.fs,
                  handle |-> r.handle, tr |-> tr1]
        ELSE IF opened = "NotFound"
        THEN LET d   == store_default(fsys, h.T, path, fault)
                 tr2 == [tr1 EXCEPT !.defaults = @ + 1]
             IN  IF d.res # "Ok"
                 THEN [res |-> d.res, stage |-> "store_default", fs |-> d.fs,
                       handle |-> set_store(h, DefaultStore(h.T)), tr |-> tr2]
                 ELSE IF removals > 0
                 THEN open_file_resetting(st, RemoveFile(d.fs, path), h,
                                          operation, fault, removals - 1,
                                          [tr2 EXCEPT !.removed = @ + 1])
                 ELSE open_file_resetting(st, d.fs, h, operation, fault, 0, tr2)
        ELSE [res |-> "FileOpen", stage |-> "open", fs |-> fsys,
              handle |-> h, tr |-> tr1]

RECURSIVE open_file(_, _, _, _, _, _, _)
\* Storage::open_file.  operation is "read" or "write"; removals is how
\* often another process removes the file right after the default write;
\* tr counts the open attempts and the store_default runs made so far, and
\* notes whether the first open met an io::Error other than NotFound.
open_file(st, fsys, h, operation, fault, removals, tr) ==
    LET path    == FilePath(st, h)
        attempt == tr.opens + 1
        tr1     == [tr EXCEPT !.opens = attempt,
                              !.denied = @ \/ (attempt = 1 /\ fault = "open")]
        opened  == OpenOptionsOpen(fsys, path, fault, attempt)
    IN  IF opened = "Ok"
        THEN LET r == IF operation = "read"
                      THEN ReadOperation(fsys, path, h, fault)
                      ELSE WriteOperation(fsys, path, h, fault)
             IN  [res |-> r.res, stage |-> "operation", fs |-> r.fs,
                  handle |-> r.handle, tr |-> tr1]
        ELSE IF opened = "NotFound"
        THEN LET d   == store_default(fsys, h.T, path, fault)
                 tr2 == [tr1 EXCEPT !.defaults = @ + 1]
             IN  IF d.res # "Ok"
                 THEN [res |-> d.res, stage |-> "store_default", fs |-> d.fs,
                       handle |-> h, tr |-> tr2]
                 ELSE IF removals > 0
                 THEN open_file(st, RemoveFile(d.fs, path), h, operation,
                                fault, removals - 1,
                                [tr2 EXCEPT !.removed = @ + 1])
                 ELSE open_file(st, d.fs, h, operation, fault, 0, tr2)
        ELSE [res |-> "FileOpen", stage |-> "open", fs |-> fsys,
              handle |-> h, tr |-> tr1]

NoTrace == [opens |-> 0, defaults |-> 0, removed |-> 0, denied |-> FALSE]

\* Storage::read
StorageRead(st, fs, h, fault, removals) ==
    open_file(st, fs, h, "read", fault, removals, NoTrace)

\* Storage::write
StorageWrite(st, fs, h, fault, removals) ==
    open_file(st, fs, h, "write", fault, removals, NoTrace)


\* ------------------------------------------------------------------- state
VARIABLES
    storage,   \* the Storage every handle and Manager works against
    files,     \* the file system: path -> text, for the existing files
    dirs,      \* the file system: the existing directories
    mgr,       \* the StoreManagers in scope: None or [store, handle]
    handles,   \* the bare StoreHandles in scope: None or a handle
    synced,    \* per bare handle, the value of its last successful read or
               \* write, if any (history, for the handle value invariant)
    last       \* the last call made: operation, arguments, result, trace

vars == <<storage, files, dirs, mgr, handles, synced, last>>

Managers == {"A", "B"}
HandleIds == {"h1", "h2"}

fs == [files |-> files, dirs |-> dirs]

NoFiles == [q \in {} |-> <<>>]

\* no successful read or write yet / the value last read or written
NoSync == [synced |-> FALSE]
Sync(store) == [synced |-> TRUE, store |-> store]

\* the record kept of a call that made no Storage call
Quiet(op, who, arg) ==
    [op |-> op, who |-> who, arg |-> arg, res |-> "Ok", stage |-> "none",
     opens |-> 0, defaults |-> 0, removed |-> 0, denied |-> FALSE,
     reads |-> 0, writes |-> 0]

\* the record kept of a call that made one Storage::read (r) or write (w)
Called(op, who, arg, r, reads, writes) ==
    [op |-> op, who |-> who, arg |-> arg, res |-> r.res, stage |-> r.stage,
     opens |-> r.tr.opens, defaults |-> r.tr.defaults,
     removed |-> r.tr.removed, denied |-> r.tr.denied,
     reads |-> reads, writes |-> writes]

\* the changes callers apply to a store: count += 1, count = 0, count = Big
Changes == {"inc", "reset", "big"}

Change(f, store) ==
    CASE f = "inc"   -> store + 1
      [] f = "reset" -> 0
      [] f = "big"   -> BigCount

\* count += 1 is explored up to MaxCount
ChangeInBounds(f, store) == f = "inc" => store < MaxCount

\* the store id and the value type the Managers of Spec use
TheId == RelId
TheType == "DataStore"
ThePath == FilePath(storage, StoreHandleNew(TheType, TheId))

\* ----------------------------------------------------------------- manager
\* mutant of StoreManagerFromHandle: the file is read into a copy of the
\* handle and the Manager keeps the handle it was given
StoreManagerFromHandleKeeping(st, fsys, handle, fault, removals) ==
    LET r == StorageRead(st, fsys, handle, fault, removals)
    IN  [res |-> r.res, fs |-> r.fs,
         manager |-> IF r.res = "Ok"
                     THEN [store |-> st, handle |-> handle]
                     ELSE None,
         call |-> r]

\* StoreManager::from_handle, as a function: the result, the file system
\* after the call and the Manager returned (None on an error)
StoreManagerFromHandle(st, fsys, handle, fault, removals) ==
    LET r == StorageRead(st, fsys, handle, fault, removals)
    IN  [res |-> r.res, fs |-> r.fs,
         manager |-> IF r.res = "Ok"
                     THEN [store |-> st, handle |-> r.handle]
                     ELSE None,
         call |-> r]

\* StoreManager::new::<T>, as a function
StoreManagerNew(st, fsys, T, store_id, fault, removals) ==
    LET handle == StoreHandleNew(T, store_id)
        r      == StorageRead(st, fsys, handle, fault, removals)
    IN  [res |-> r.res, fs |-> r.fs,
         manager |-> IF r.res = "Ok"
                     THEN [store |-> st, handle |-> r.handle]
                     ELSE None,
         call |-> r]

\* mutant of New: the read's error is dropped and the Manager is returned
\* with whatever the handle holds
NewIgnoringError(m, fault, removals) ==
    /\ mgr[m] = None
    /\ LET handle == StoreHandleNew(TheType, TheId)
           r      == StorageRead(storage, fs, handle, fault, removals)
       IN  /\ files' = r.fs.files
           /\ dirs' = r.fs.dirs
           /\ mgr' = [mgr EXCEPT ![m] = [store |-> storage,
                                         handle |-> r.handle]]
           /\ last' = Called("new", m, "none", r, 1, 0)
    /\ UNCHANGED <<storage, handles, synced>>

\* StoreManager::new(storage, store_id)
New(m, fault, removals) ==
    /\ mgr[m] = None
    /\ LET o == StoreManagerNew(storage, fs, TheType, TheId, fault, removals)
       IN  /\ files' = o.fs.files
           /\ dirs' = o.fs.dirs
           /\ mgr' = [mgr EXCEPT ![m] = o.manager]
           /\ last' = Called("new", m, "none", o.call, 1, 0)
    /\ UNCHANGED <<storage, handles, synced>>

\* the values a handle given to from_handle holds: it was mutated in memory
Presets == {1, BigCount}

\* StoreManager::from_handle(storage, handle)
FromHandle(m, preset, fault, removals) ==
    /\ mgr[m] = None
    /\ LET handle == set_store(StoreHandleNew(TheType, TheId), preset)
           o      == StoreManagerFromHandle(storage, fs, handle, fault,
                                            removals)
       IN  /\ files' = o.fs.files
           /\ dirs' = o.fs.dirs
           /\ mgr' = [mgr EXCEPT ![m] = o.manager]
           /\ last' = Called("from_handle", m, "none", o.call, 1, 0)
    /\ UNCHANGED <<storage, handles, synced>>

\* StoreManager::get_store_mut, and the caller's assignment through it
GetStoreMut(m, f) ==
    /\ mgr[m] # None
    /\ ChangeInBounds(f, mgr[m].handle.store)
    /\ mgr' = [mgr EXCEPT ![m].handle.store = Change(f, @)]
    /\ last' = Quiet("get_store_mut", m, f)
    /\ UNCHANGED <<storage, files, dirs, handles, synced>>

\* mutant of GetStoreAlive: the file is read but the value in memory is
\* returned as it is
GetStoreAliveKeepingMemory(m, fault, removals) ==
    /\ mgr[m] # None
    /\ LET r == StorageRead(mgr[m].store, fs, mgr[m].handle, fault, removals)
       IN  /\ files' = r.fs.files
           /\ dirs' = r.fs.dirs
           /\ mgr' = mgr
           /\ last' = Called("get_store_alive", m, "none", r, 1, 0)
    /\ UNCHANGED <<storage, handles, synced>>

\* StoreManager::get_store_alive
GetStoreAlive(m, fault, removals) ==
    /\ mgr[m] # None
    /\ LET r == StorageRead(mgr[m].store, fs, mgr[m].handle, fault, removals)
       IN  /\ files' = r.fs.files
           /\ dirs' = r.fs.dirs
           /\ mgr' = [mgr EXCEPT ![m].handle = r.handle]
           /\ last' = Called("get_store_alive", m, "none", r, 1, 0)
    /\ UNCHANGED <<storage, handles, synced>>

\* StoreManager::save, as a function of the Manager
save(manager, fsys, fault, removals) ==
    StorageWrite(manager.store, fsys, manager.handle, fault, removals)

\* StoreManager::save
Save(m, fault, removals) ==
    /\ mgr[m] # None
    /\ LET r == save(mgr[m], fs, fault, removals)
       IN  /\ files' = r.fs.files
           /\ dirs' = r.fs.dirs
           /\ mgr' = [mgr EXCEPT ![m].handle = r.handle]
           /\ last' = Called("save", m, "none", r, 0, 1)
    /\ UNCHANGED <<storage, handles, synced>>

\* StoreManager::modify_store, as a function of the Manager: the change is
\* applied to the handle's store, then save() decides the result
modify_store(manager, fsys, f, fault, removals) ==
    LET changed == [manager EXCEPT !.handle.store = Change(f, @)]
        r       == save(changed, fsys, fault, removals)
    IN  [res |-> r.res, fs |-> r.fs,
         manager |-> [changed EXCEPT !.handle = r.handle], call |-> r]

\* StoreManager::modify_store_uncommitted, as a function of the Manager
modify_store_uncommitted(manager, f) ==
    [manager EXCEPT !.handle.store = Change(f, @)]

\* mutant of ModifyStore: a failed save restores the previous value
ModifyStoreRollback(m, f, fault, removals) ==
    /\ mgr[m] # None
    /\ ChangeInBounds(f, mgr[m].handle.store)
    /\ LET changed == [mgr[m] EXCEPT !.handle.store = Change(f, @)]
           r       == save(changed, fs, fault, removals)
       IN  /\ files' = r.fs.files
           /\ dirs' = r.fs.dirs
           /\ mgr' = IF r.res = "Ok"
                     THEN [mgr EXCEPT ![m] = [changed EXCEPT !.handle = r.handle]]
                     ELSE mgr
           /\ last' = Called("modify_store", m, f, r, 0, 1)
    /\ UNCHANGED <<storage, handles, synced>>

\* StoreManager::modify_store
ModifyStore(m, f, fault, removals) ==
    /\ mgr[m] # None
    /\ ChangeInBounds(f, mgr[m].handle.store)
    /\ LET o == modify_store(mgr[m], fs, f, fault, removals)
       IN  /\ files' = o.fs.files
           /\ dirs' = o.fs.dirs
           /\ mgr' = [mgr EXCEPT ![m] = o.manager]
           /\ last' = Called("modify_store", m, f, o.call, 0, 1)
    /\ UNCHANGED <<storage, handles, synced>>

\* mutant of ModifyStoreUncommitted: the change is saved as well
ModifyStoreUncommittedSaving(m, f) ==
    /\ mgr[m] # None
    /\ ChangeInBounds(f, mgr[m].handle.store)
    /\ LET changed == [mgr[m] EXCEPT !.handle.store = Change(f, @)]
           r       == save(changed, fs, "none", 0)
       IN  /\ files' = r.fs.files
           /\ dirs' = r.fs.dirs
           /\ mgr' = [mgr EXCEPT ![m] = changed]
           /\ last' = Quiet("modify_store_uncommitted", m, f)
    /\ UNCHANGED <<storage, handles, synced>>

\* StoreManager::modify_store_uncommitted
ModifyStoreUncommitted(m, f) ==
    /\ mgr[m] # None
    /\ ChangeInBounds(f, mgr[m].handle.store)
    /\ mgr' = [mgr EXCEPT ![m] = modify_store_uncommitted(mgr[m], f)]
    /\ last' = Quiet("modify_store_uncommitted", m, f)
    /\ UNCHANGED <<storage, files, dirs, handles, synced>>

\* a Manager goes out of scope: nothing is flushed
Drop(m) ==
    /\ mgr[m] # None
    /\ mgr' = [mgr EXCEPT ![m] = None]
    /\ last' = Quiet("drop", m, "none")
    /\ UNCHANGED <<storage, files, dirs, handles, synced>>

\* ------------------------------------------------------------- environment
\* another program removes the file
ExternalRemove ==
    /\ FileExists(fs, ThePath)
    /\ files' = RemoveFile(fs, ThePath).files
    /\ last' = Quiet("external_remove", "env", "none")
    /\ UNCHANGED <<storage, dirs, mgr, handles, synced>>

\* another program replaces the file's text
ExternalEdit ==
    /\ FileExists(fs, ThePath)
    /\ files' = PutFile(fs, ThePath, Garbage).files
    /\ last' = Quiet("external_edit", "env", "none")
    /\ UNCHANGED <<storage, dirs, mgr, handles, synced>>

\* how often the file may be removed during a call: open_file consults this
\* only after a default write, which needs the file to be missing
Removals == IF FileExists(fs, ThePath) THEN {0} ELSE 0..MaxRemovals

Init ==
    /\ storage = StorageNew("linux", AppId)
    /\ files = NoFiles
    /\ dirs = {}
    /\ mgr = [m \in Managers |-> None]
    /\ handles = [h \in HandleIds |-> None]
    /\ synced = [h \in HandleIds |-> NoSync]
    /\ last = Quiet("init", "env", "none")

Next ==
    \/ \E m \in Managers, fault \in Faults, k \in Removals :
          New(m, fault, k)
    \/ \E m \in Managers, v \in Presets, fault \in Faults, k \in Removals :
          FromHandle(m, v, fault, k)
    \/ \E m \in Managers, f \in Changes : GetStoreMut(m, f)
    \/ \E m \in Managers, fault \in Faults, k \in Removals :
          GetStoreAlive(m, fault, k)
    \/ \E m \in Managers, fault \in Faults, k \in Removals :
          Save(m, fault, k)
    \/ \E m \in Managers, f \in Changes, fault \in Faults, k \in Removals :
          ModifyStore(m, f, fault, k)
    \/ \E m \in Managers, f \in Changes : ModifyStoreUncommitted(m, f)
    \/ \E m \in Managers : Drop(m)
    \/ ExternalRemove
    \/ ExternalEdit

Spec == Init /\ [][Next]_vars

\* ------------------------------------------------------------ bare handles
\* The handle API of examples/handle: a StoreHandle of any value type and
\* store id, read and written directly through a Storage built by
\* Storage::new on either platform or by Storage::from with any directories.

Storages ==
    {StorageNew(p, AppId) : p \in Platforms}
    \cup {StorageFrom(c, d, g) : c \in FromDirs, d \in FromDirs, g \in FromDirs}

\* let handle = StoreHandle::<T>::new(store_id)
HandleNew(h, T, store_id) ==
    /\ handles[h] = None
    /\ handles' = [handles EXCEPT ![h] = StoreHandleNew(T, store_id)]
    /\ synced' = [synced EXCEPT ![h] = NoSync]
    /\ last' = Quiet("handle_new", h, "none")
    /\ UNCHANGED <<storage, files, dirs, mgr>>

\* StoreHandle::get_store_mut, and the caller's increment_count through it
HandleGetStoreMut(h) ==
    /\ handles[h] # None
    /\ handles[h].store < HandleMaxCount
    /\ handles' = [handles EXCEPT ![h].store = Change("inc", @)]
    /\ last' = Quiet("get_store_mut", h, "inc")
    /\ UNCHANGED <<storage, files, dirs, mgr, synced>>

\* storage.read(&mut handle)
HandleRead(h) ==
    /\ handles[h] # None
    /\ LET r == StorageRead(storage, fs, handles[h], "none", 0)
       IN  /\ files' = r.fs.files
           /\ dirs' = r.fs.dirs
           /\ handles' = [handles EXCEPT ![h] = r.handle]
           /\ synced' = IF r.res = "Ok"
                        THEN [synced EXCEPT ![h] = Sync(r.handle.store)]
                        ELSE synced
           /\ last' = Called("read", h, "none", r, 1, 0)
    /\ UNCHANGED <<storage, mgr>>

\* storage.write(&mut handle)
HandleWrite(h) ==
    /\ handles[h] # None
    /\ LET r == StorageWrite(storage, fs, handles[h], "none", 0)
       IN  /\ files' = r.fs.files
           /\ dirs' = r.fs.dirs
           /\ handles' = [handles EXCEPT ![h] = r.handle]
           /\ synced' = IF r.res = "Ok"
                        THEN [synced EXCEPT ![h] = Sync(r.handle.store)]
                        ELSE synced
           /\ last' = Called("write", h, "none", r, 0, 1)
    /\ UNCHANGED <<storage, mgr>>

\* another program replaces the text of a handle's file
HandleExternalEdit(h) ==
    /\ handles[h] # None
    /\ FileExists(fs, FilePath(storage, handles[h]))
    /\ files[FilePath(storage, handles[h])] # Garbage
    /\ files' = PutFile(fs, FilePath(storage, handles[h]), Garbage).files
    /\ last' = Quiet("external_edit", "env", "none")
    /\ UNCHANGED <<storage, dirs, mgr, handles, synced>>

InitHandle ==
    /\ storage \in Storages
    /\ files = NoFiles
    /\ dirs = {}
    /\ mgr = [m \in Managers |-> None]
    /\ handles = [h \in HandleIds |-> None]
    /\ synced = [h \in HandleIds |-> NoSync]
    /\ last = Quiet("init", "env", "none")

NextHandle ==
    \/ \E h \in HandleIds, T \in Types, id \in Identifiers : HandleNew(h, T, id)
    \/ \E h \in HandleIds : HandleGetStoreMut(h)
    \/ \E h \in HandleIds : HandleRead(h)
    \/ \E h \in HandleIds : HandleWrite(h)
    \/ \E h \in HandleIds : HandleExternalEdit(h)

SpecHandle == InitHandle /\ [][NextHandle]_vars

TypeOK ==
    /\ \A m \in Managers : mgr[m] # None => mgr[m].handle.store \in Nat
    /\ \A h \in HandleIds : handles[h] # None => handles[h].store \in Nat
    /\ last.res \in Errors \cup {"Ok"}


\* ------------------------------------------------------------------ claims
ReadOps == {"new", "from_handle", "get_store_alive"}
WriteOps == {"save", "modify_store"}
UncommittedOps == {"modify_store_uncommitted", "get_store_mut"}

\* what StoreManager::new over the same storage and identifier would return
\* on the file system fsys, when nothing fails and nobody interferes
FreshNew(fsys) ==
    StorageRead(storage, fsys, StoreHandleNew(TheType, TheId), "none", 0)

\* the file system after the step
fsNext == [files |-> files', dirs |-> dirs']

\* the in-memory value of Manager m, before and after the step
StoreOf(m) == mgr[m].handle.store
StoreNextOf(m) == mgr'[m].handle.store

\* C1 (as claimed): whenever modify_store(f) returns Ok, a fresh
\* StoreManager::new over the same storage and identifier is constructed
\* and its value is f applied to the Manager's previous value, also when the
\* new encoding is shorter than the file's previous content.
C1_CommitObserved ==
    [][(last'.op = "modify_store" /\ last'.res = "Ok") =>
          LET r == StorageRead(storage', fsNext,
                               StoreHandleNew(TheType, TheId), "none", 0)
          IN  /\ r.res = "Ok"
              /\ r.handle.store = Change(last'.arg, StoreOf(last'.who))]_vars

\* C2: modify_store_uncommitted and get_store_mut leave the file system as
\* it is, so a fresh Manager still reads what was on disk before them.
C2_UncommittedIsolation ==
    [][last'.op \in UncommittedOps =>
          /\ files' = files
          /\ dirs' = dirs
          /\ FreshNew(fsNext).res = FreshNew(fs).res
          /\ FreshNew(fsNext).handle = FreshNew(fs).handle]_vars

\* C2 witness: a Manager holds an uncommitted mutation that differs from
\* the decodable content of the file.
C2_Witness ==
    /\ last.op = "modify_store_uncommitted"
    /\ FileExists(fs, ThePath)
    /\ Decode(files[ThePath]).ok
    /\ Decode(files[ThePath]).value # StoreOf(last.who)

\* C3 (as claimed): whenever Storage::write returns Ok, the file's content
\* is exactly the encoding of handle.value, nothing left of older content.
C3_WritePostcondition ==
    (last.op \in WriteOps /\ last.res = "Ok") =>
        /\ FileExists(fs, ThePath)
        /\ files[ThePath] = Encode(StoreOf(last.who))

\* C6 (as claimed): every read or write call makes at most two open
\* attempts and runs store_default at most once.
C6_BoundedRetry ==
    last.opens <= 2 /\ last.defaults <= 1


C5_DecodeFailureKeepsValue ==
    [][last'.op = "get_store_alive" =>
          LET m == last'.who
          IN  /\ (FileExists(fs, ThePath) /\ ~Decode(files[ThePath]).ok
                    /\ last'.res \notin {"FileOpen", "Read"})
                   => last'.res = "RonParse"
              /\ last'.res = "RonParse" => mgr'[m] = mgr[m]
              /\ StoreNextOf(m) # StoreOf(m) =>
                   /\ last'.res = "Ok"
                   /\ Decode(files'[ThePath]) =
                        [ok |-> TRUE, value |-> StoreNextOf(m)]]_vars

\* C5 witness: a live read failed to decode while the Manager held an
\* uncommitted, non-default value.
C5_Witness ==
    /\ last.op = "get_store_alive"
    /\ last.res = "RonParse"
    /\ StoreOf(last.who) = BigCount
    /\ ~Decode(files[ThePath]).ok

\* C7 (as claimed): two handles of value types with different categories
\* and the same identifier never resolve to the same file path.
C7_CategoryIsolation ==
    \A h1 \in HandleIds, h2 \in HandleIds :
        (/\ handles[h1] # None
         /\ handles[h2] # None
         /\ store_type(handles[h1].T) # store_type(handles[h2].T)
         /\ handles[h1].store_id = handles[h2].store_id)
        => FilePath(storage, handles[h1]) # FilePath(storage, handles[h2])

\* C8: when modify_store(f) returns an error, the Manager's value is f
\* applied to the previous value.
C8_NoRollback ==
    [][(last'.op = "modify_store" /\ last'.res # "Ok") =>
          StoreNextOf(last'.who) = Change(last'.arg, StoreOf(last'.who))]_vars

\* C8 witness: modify_store(count += 1) failed in its write step and the
\* Manager holds the incremented value while the file holds another one.
C8_Witness ==
    /\ last.op = "modify_store"
    /\ last.arg = "inc"
    /\ last.res = "Write"
    /\ StoreOf(last.who) = 2
    /\ FileExists(fs, ThePath)
    /\ Decode(files[ThePath]) = [ok |-> TRUE, value |-> 1]

\* C9: new and from_handle make exactly one Storage::read and no write;
\* on Ok the Manager exists and its value is the decoded content of the
\* file, which now exists (the default if it was missing); on an error no
\* Manager comes into scope.
C9_Construction ==
    [][last'.op \in {"new", "from_handle"} =>
          LET m == last'.who
          IN  /\ last'.reads = 1
              /\ last'.writes = 0
              /\ IF last'.res = "Ok"
                 THEN /\ mgr'[m] # None
                      /\ FileExists(fsNext, ThePath)
                      /\ Decode(files'[ThePath]) =
                           [ok |-> TRUE, value |-> StoreNextOf(m)]
                      /\ ~FileExists(fs, ThePath)
                           => StoreNextOf(m) = DefaultStore(TheType)
                 ELSE mgr'[m] = None]_vars

\* C9 witness: from_handle returned a Manager whose value is the file's
\* content, not the default and not the value the handle came with.
C9_Witness ==
    /\ last.op = "from_handle"
    /\ last.res = "Ok"
    /\ mgr[last.who] # None
    /\ StoreOf(last.who) = 2
    /\ Decode(files[ThePath]) = [ok |-> TRUE, value |-> 2]

\* C10 (as claimed): when encoding handle.value fails during write, the
\* call returns Ron and the file system is as before the call.
C10_EncodeFailureNoEffect ==
    [][(last'.op \in WriteOps /\ last'.res = "Ron"
          /\ last'.stage = "operation") =>
          /\ files' = files
          /\ dirs' = dirs]_vars


\* the Manager's value after a call that does not read: the value before,
\* with the change applied first when the call is modify_store
ValueKept(m) ==
    IF last'.op = "modify_store"
    THEN StoreNextOf(m) = Change(last'.arg, StoreOf(m))
    ELSE IF last'.op \in {"new", "from_handle"}
    THEN mgr'[m] = None
    ELSE mgr'[m] = mgr[m]

\* C11: when the file is missing and the default bootstrap fails, the call
\* returns store_default's error (CreateDir, Ron or Write) after one open
\* and one store_default run, the read or write step is not run, and the
\* handle's value is as before (no Manager comes out of a constructor).
C11_BootstrapFailureAborts ==
    [][(last'.op \in ReadOps \cup WriteOps /\ ~FileExists(fs, ThePath)
          /\ last'.stage = "store_default") =>
          /\ last'.res \in {"CreateDir", "Ron", "Write"}
          /\ last'.opens = 1
          /\ last'.defaults = 1
          /\ files' = files
          /\ ValueKept(last'.who)]_vars

\* C11 witness: a live read found the file missing, the directory could not
\* be created, and the Manager still holds its uncommitted value.
C11_Witness ==
    /\ last.op = "get_store_alive"
    /\ last.res = "CreateDir"
    /\ last.stage = "store_default"
    /\ StoreOf(last.who) = BigCount
    /\ ~FileExists(fs, ThePath)

\* C12: when the first open fails with an error other than NotFound, the
\* call returns FileOpen after that one open, runs no store_default, and
\* files, directories and the handle's value are as before.
C12_OpenFailureAborts ==
    [][(last'.op \in ReadOps \cup WriteOps /\ last'.denied) =>
          /\ last'.res = "FileOpen"
          /\ last'.stage = "open"
          /\ last'.opens = 1
          /\ last'.defaults = 0
          /\ files' = files
          /\ dirs' = dirs
          /\ ValueKept(last'.who)]_vars

\* C12 witness: a save was refused at the first open while the file was
\* missing and no directory existed; nothing was created.
C12_Witness ==
    /\ last.op = "save"
    /\ last.denied
    /\ last.res = "FileOpen"
    /\ ~FileExists(fs, ThePath)
    /\ StoreOf(last.who) = 1


HandleValueInv(h, hs, sy) ==
    hs[h] # None =>
        \/ hs[h].store = DefaultStore(hs[h].T)
        \/ sy[h] = Sync(hs[h].store)

\* C14 (as claimed): in every reachable state a handle's value is the type
\* default or the value of the last successful read or write on it.
C14_HandleValueInvariant ==
    \A h \in HandleIds : HandleValueInv(h, handles, synced)

\* C14 (amended): a handle starts with the type default; its value changes
\* only by the caller's mutation through get_store_mut or by a successful
\* read, which sets it to the completely decoded content of its file; and
\* every step other than such a mutation keeps the value at the default or
\* at the value of the last successful read or write.
C14_HandleValueAmended ==
    [][\A h \in HandleIds :
          handles'[h] # None =>
              /\ handles[h] = None =>
                   handles'[h].store = DefaultStore(handles'[h].T)
              /\ (handles[h] # None /\ handles'[h].store # handles[h].store) =>
                   /\ last'.who = h
                   /\ \/ last'.op = "get_store_mut"
                      \/ /\ last'.op = "read"
                         /\ last'.res = "Ok"
                         /\ Decode(files'[FilePath(storage, handles'[h])]) =
                              [ok |-> TRUE, value |-> handles'[h].store]
              /\ (~(last'.who = h /\ last'.op = "get_store_mut")
                    /\ HandleValueInv(h, handles, synced))
                   => HandleValueInv(h, handles', synced')]_vars

\* C14 witness: a handle holds a value mutated through get_store_mut that
\* is neither the default nor the value it last read, and a read of its
\* garbled file has just failed without touching it.
C14_Witness ==
    /\ last.op = "read"
    /\ last.res = "RonParse"
    /\ handles[last.who].store = 1
    /\ synced[last.who] = Sync(0)


\* C15 (as claimed): when a Manager's successful modify_store(f) is followed
\* by another Manager's successful modify_store(g), the file holds the
\* encoding of g applied to the second Manager's in-memory value, whatever
\* the first one wrote.
C15_LostUpdate ==
    [][(/\ last.op = "modify_store"
        /\ last.res = "Ok"
        /\ last'.op = "modify_store"
        /\ last'.res = "Ok"
        /\ last'.who # last.who) =>
          /\ FileExists(fsNext, ThePath)
          /\ files'[ThePath] =
               Encode(Change(last'.arg, StoreOf(last'.who)))]_vars


\* a Manager's state and the file system after save(), as modify_store
\* reports them
Saved(manager, fsys, fault, removals) ==
    LET r == save(manager, fsys, fault, removals)
    IN  [res |-> r.res, fs |-> r.fs,
         manager |-> [manager EXCEPT !.handle = r.handle]]

Outcome(o) == [res |-> o.res, fs |-> o.fs, manager |-> o.manager]

\* first half of C16: modify_store(f) and modify_store_uncommitted(f)
\* followed by save() give the same value, file system and result
C16_SingleChangeAgrees ==
    \A m \in Managers, f \in Changes, fault \in Faults, k \in Removals :
        (mgr[m] # None /\ ChangeInBounds(f, StoreOf(m))) =>
            Outcome(modify_store(mgr[m], fs, f, fault, k)) =
            Saved(modify_store_uncommitted(mgr[m], f), fs, fault, k)

\* second half of C16, for two changes: when all saves succeed,
\* modify_store(f1); modify_store(f2) leaves the same value and file system
\* as the two changes made uncommitted and saved once
C16_TwoChangesAgree ==
    \A m \in Managers, f1 \in Changes, f2 \in Changes :
        (/\ mgr[m] # None
         /\ ChangeInBounds(f1, StoreOf(m))
         /\ ChangeInBounds(f2, Change(f1, StoreOf(m)))) =>
            LET c1 == modify_store(mgr[m], fs, f1, "none", 0)
                c2 == modify_store(c1.manager, c1.fs, f2, "none", 0)
                u  == modify_store_uncommitted(
                          modify_store_uncommitted(mgr[m], f1), f2)
                s  == Saved(u, fs, "none", 0)
            IN  (c1.res = "Ok" /\ c2.res = "Ok" /\ s.res = "Ok") =>
                    /\ c2.manager = s.manager
                    /\ c2.fs = s.fs

\* C16 (as claimed): the two commit modes agree, for one change and for a
\* sequence of changes.
C16_CommitModesAgree ==
    C16_SingleChangeAgrees /\ C16_TwoChangesAgree


\* C17: a read (new, from_handle, get_store_alive) that finds the file
\* existing leaves files and directories as they are, whether it succeeds
\* or fails with FileOpen, Read or RonParse.
C17_ReadDoesNotWrite ==
    [][(last'.op \in ReadOps /\ FileExists(fs, ThePath)) =>
          /\ files' = files
          /\ dirs' = dirs
          /\ last'.defaults = 0]_vars

\* C17 witness: a constructor has failed to decode the existing file, which
\* still holds the text that does not decode.
C17_Witness ==
    /\ last.op = "new"
    /\ last.res = "RonParse"
    /\ FileExists(fs, ThePath)
    /\ files[ThePath] = Garbage


\* C18: save leaves the Manager as it is and modify_store leaves it with
\* just the change applied, in every outcome, also when the call
\* bootstrapped a default file; no call changes a Manager's store id, its
\* Storage, or the Storage's three roots.
C18_WriteKeepsMemory ==
    [][/\ last'.op \in WriteOps => ValueKept(last'.who)
       /\ \A m \in Managers :
            (mgr[m] # None /\ mgr'[m] # None) =>
                /\ mgr'[m].handle.store_id = mgr[m].handle.store_id
                /\ mgr'[m].handle.T = mgr[m].handle.T
                /\ mgr'[m].store = mgr[m].store
       /\ \A m \in Managers : mgr'[m] # None => mgr'[m].store = storage
       /\ storage' = storage]_vars

\* C18 witness: a save found the file missing, bootstrapped the default
\* and wrote the Manager's value over it; the Manager still holds it.
C18_Witness ==
    /\ last.op = "save"
    /\ last.res = "Ok"
    /\ last.defaults = 1
    /\ StoreOf(last.who) = 2
    /\ files[ThePath] = Encode(2)


\* C19: from every reachable file system, from_handle given a handle whose
\* value was mutated in memory returns what new returns for the same
\* storage, identifier, failure and interference: the same Manager (the
\* handle's own value is discarded), the same files and directories, or the
\* same error and no Manager.
C19_ConstructorsAgree ==
    \A preset \in Presets, fault \in Faults, k \in Removals :
        Outcome(StoreManagerFromHandle(
                    storage, fs,
                    set_store(StoreHandleNew(TheType, TheId), preset),
                    fault, k)) =
        Outcome(StoreManagerNew(storage, fs, TheType, TheId, fault, k))

\* C19 witness: from_handle found the file missing and returned a Manager
\* holding the bootstrapped default, not the value its handle came with.
C19_Witness ==
    /\ last.op = "from_handle"
    /\ last.res = "Ok"
    /\ last.defaults = 1
    /\ mgr[last.who] # None
    /\ StoreOf(last.who) = DefaultStore(TheType)
    /\ DefaultStore(TheType) \notin Presets


\* C20: a successful save() that directly follows a successful save() of
\* the same Manager leaves the file's content, the directories and the
\* Manager's value as the first save left them.
C20_SaveIdempotent ==
    [][(/\ last.op = "save"
        /\ last.res = "Ok"
        /\ last'.op = "save"
        /\ last'.res = "Ok"
        /\ last'.who = last.who) =>
          /\ files' = files
          /\ dirs' = dirs
          /\ mgr' = mgr]_vars

\* C20 witness: a save has succeeded on a file that was already there and
\* that holds the Manager's value, as a repeated save finds it.
C20_Witness ==
    /\ last.op = "save"
    /\ last.res = "Ok"
    /\ last.opens = 1
    /\ StoreOf(last.who) = BigCount
    /\ files[ThePath] = Encode(BigCount)

====
